---- MODULE Spec2Model ----
(***************************************************************************)
(* Model of the smartMeter repository.                                     *)
(*                                                                         *)
(*  - src/spark/streaming_job.py: a Spark Structured Streaming query that  *)
(*    reads CSV batch files, groups the rows by 5-minute tumbling window   *)
(*    and meter under a 5-minute event-time watermark, averages four       *)
(*    metrics and appends the finalized windows to a parquet file sink     *)
(*    with a checkpoint location.  The job is declarative; the model       *)
(*    gives each call the behaviour the called operation has in Spark's    *)
(*    micro-batch engine (offset log written before a batch runs, state    *)
(*    store versioned by batch id, file sink committing a manifest per     *)
(*    batch id, commit log written last).                                  *)
(*  - src/simulator/simulator.py: the generator of the batch files with    *)
(*    its per-meter cumulative energy counter and metadata file.           *)
(*                                                                         *)
(* Engine behaviour the job relies on without setting it: the CSV reader's  *)
(* default PERMISSIVE mode (a malformed row is kept with nulls, wholly or   *)
(* only in the malformed column, depending on the build: `partialRows`),   *)
(* a failed timestamp cast giving null, batches without data when the      *)
(* watermark has moved, and the tracker updated in memory right before the *)
(* commit log is written.                                                  *)
(*                                                                         *)
(* Time is in seconds since the epoch.  Averages are exact fractions.  A   *)
(* batch file is the set of its rows.                                      *)
(***************************************************************************)
EXTENDS Integers, Sequences, FiniteSets

VARIABLES
    \* ---- streaming job: what lives outside the process ----
    feed,           \* the producer: the files it may deliver and how many more
    source,         \* batch files present under input_path, in arrival order
    offsetLog,      \* checkpoint/offsets: per batch id, files planned + watermark
    commitLog,      \* checkpoint/commits: per batch id, watermark for the next batch
    stateStore,     \* checkpoint/state: aggregation state per version
    sinkLog,        \* output_path/_spark_metadata: committed output per batch id
    partialRows,    \* CSV reader keeps the parsed fields of a malformed row (build dependent)
    \* ---- streaming job: memory of the running query ----
    pc,             \* position of the micro-batch loop
    watermark,      \* the watermark tracker's current value
    lastExecution,  \* last executed batch: its watermark and event-time statistics
    batchOutput,    \* rows finalized by the running batch, not yet committed to the sink
    numRowsDroppedByWatermark, \* late rows dropped by the running batch
    exception,      \* why the query terminated
    restarts,       \* number of restarts so far
    \* ---- simulator ----
    energy,         \* in-memory cumulative energy per meter
    metadata,       \* contents of the metadata file
    readings,       \* readings generated for the batch under construction
    written,        \* batch files written so far
    simPc           \* position of the simulator loop

engineVars == <<feed, source, offsetLog, commitLog, stateStore, sinkLog, partialRows,
                pc, watermark, lastExecution, batchOutput, numRowsDroppedByWatermark,
                exception, restarts>>
simVars == <<energy, metadata, readings, written, simPc>>
vars == <<engineVars, simVars>>

----------------------------------------------------------------------------
(* Bounds of the model *)
MaxFiles == 2
MaxRestarts == 1

(* Program constants *)
WindowDuration == 300
DelayThreshold == 300

Metrics == {"voltage", "current", "active_power", "power_factor"}

----------------------------------------------------------------------------
(* Raw CSV rows.  `bad` names the column whose text does not parse. *)
RawRow(m, t, p, b) ==
    [meter_id |-> m, timestamp |-> t, voltage |-> 230, current |-> 5,
     active_power |-> p, power_factor |-> 1, bad |-> b]

Rows == {RawRow(1, 10, 100, "none"), RawRow(1, 299, 200, "none"),
         RawRow(2, 600, 300, "none")}

ExampleFirst == {RawRow(1, 10, 100, "none"), RawRow(1, 120, 200, "none"),
                 RawRow(1, 290, 300, "none")}
ExampleLater == {RawRow(1, 301, 100, "none"), RawRow(2, 301, 100, "none"),
                 RawRow(2, 600, 100, "none")}

ParseRows == {RawRow(1, 10, 100, "none"), RawRow(1, 30, 300, "voltage"),
              RawRow(1, 40, 200, "timestamp"), RawRow(2, 600, 100, "none")}

FilesOver(U) == SUBSET U \ {{}}

----------------------------------------------------------------------------
(* Record parsing: schema + csv reader in the default PERMISSIVE mode, and the
   cast of the timestamp column.  A typed row carries the set of its null
   columns. *)
ParseRow(r, partial) ==
    LET nulls ==
          IF r.bad = "none" THEN {}
          ELSE IF r.bad = "timestamp" THEN {"event_time"}
          ELSE IF partial THEN {r.bad}
          ELSE {"meter_id", "event_time"} \cup Metrics
    IN [meter_id |-> r.meter_id, event_time |-> r.timestamp,
        voltage |-> r.voltage, current |-> r.current,
        active_power |-> r.active_power, power_factor |-> r.power_factor,
        nulls |-> nulls]

TypedRows(file, partial) == {ParseRow(r, partial) : r \in file}

----------------------------------------------------------------------------
AssignBoundaryToPrevious(event_time, meter_id) ==
    LET off == IF event_time % WindowDuration = 0 THEN WindowDuration
               ELSE event_time % WindowDuration
        start == event_time - off
    IN [window_start |-> start, window_end |-> start + WindowDuration,
        meter_id |-> meter_id]

(* Window assignment: window(col("event_time"), "5 minutes") *)
Assign(event_time, meter_id) ==
    LET start == event_time - (event_time % WindowDuration)
    IN [window_start |-> start, window_end |-> start + WindowDuration,
        meter_id |-> meter_id]

(* Rows with a null event time belong to no window. *)
Windowed(rows) == {r \in rows : "event_time" \notin r.nulls}

(* withWatermark: a window is closed once its end is not after the watermark. *)
Closed(key, wm) == key.window_end <= wm

LateNever(r, wm) == FALSE

Late(r, wm) == Closed(Assign(r.event_time, r.meter_id), wm)

----------------------------------------------------------------------------
(* Aggregation: avg(...) keeps a sum and a count per metric, nulls skipped. *)
RECURSIVE SumOf(_, _)
SumOf(rows, m) ==
    IF rows = {} THEN 0
    ELSE LET r == CHOOSE x \in rows : TRUE
         IN r[m] + SumOf(rows \ {r}, m)

EmptyAcc == [m \in Metrics |-> [sum |-> 0, count |-> 0]]

EmptyState == [k \in {} |-> EmptyAcc]

MergeRows(state, rows) ==
    LET keys == DOMAIN state \cup {Assign(r.event_time, r.meter_id) : r \in rows}
        of(k, m) == {r \in rows : Assign(r.event_time, r.meter_id) = k /\ m \notin r.nulls}
        old(k) == IF k \in DOMAIN state THEN state[k] ELSE EmptyAcc
    IN [k \in keys |->
          [m \in Metrics |->
             [sum |-> old(k)[m].sum + SumOf(of(k, m), m),
              count |-> old(k)[m].count + Cardinality(of(k, m))]]]

RECURSIVE GCD(_, _)
GCD(a, b) == IF b = 0 THEN a ELSE GCD(b, a % b)

AvgUndivided(a) == [num |-> a.sum, den |-> IF a.count = 0 THEN 0 ELSE 1]

(* An average as a reduced fraction; den = 0 is the null average of no values. *)
Avg(a) ==
    IF a.count = 0 THEN [num |-> 0, den |-> 0]
    ELSE LET g == GCD(a.sum, a.count)
         IN [num |-> a.sum \div g, den |-> a.count \div g]

Finalize(key, acc) ==
    [meter_id |-> key.meter_id, window_start |-> key.window_start,
     window_end |-> key.window_end,
     avg_voltage |-> Avg(acc["voltage"]), avg_current |-> Avg(acc["current"]),
     avg_active_power |-> Avg(acc["active_power"]),
     avg_power_factor |-> Avg(acc["power_factor"])]

KeyOf(row) ==
    [window_start |-> row.window_start, window_end |-> row.window_end,
     meter_id |-> row.meter_id]

Restrict(state, keys) == [k \in keys |-> state[k]]

----------------------------------------------------------------------------
(* One micro-batch over the files planned for it. *)
NoExecution == [defined |-> FALSE, batchWatermark |-> 0, count |-> 0, max |-> 0]

CurrentBatchId == Len(offsetLog) - 1

BatchStart(b) == IF b = 0 THEN 0 ELSE offsetLog[b].end
BatchEnd(b) == offsetLog[b + 1].end
BatchWatermark(b) == offsetLog[b + 1].watermark
BatchFiles(b) == SubSeq(source, BatchStart(b) + 1, BatchEnd(b))

CommittedEnd == IF Len(commitLog) = 0 THEN 0 ELSE offsetLog[Len(commitLog)].end

RECURSIVE MergeFiles(_, _, _)
MergeFiles(state, files, wm) ==
    IF files = <<>> THEN state
    ELSE LET rows == Windowed(TypedRows(Head(files), partialRows))
             kept == {r \in rows : ~Late(r, wm)}
         IN MergeFiles(MergeRows(state, kept), Tail(files), wm)

RECURSIVE DroppedIn(_, _)
DroppedIn(files, wm) ==
    IF files = <<>> THEN 0
    ELSE LET rows == Windowed(TypedRows(Head(files), partialRows))
         IN Cardinality({r \in rows : Late(r, wm)}) + DroppedIn(Tail(files), wm)

(* Event-time statistics of the rows a batch read: how many, and the latest. *)
RECURSIVE EventTimes(_)
EventTimes(files) ==
    IF files = <<>> THEN {}
    ELSE {r.event_time : r \in Windowed(TypedRows(Head(files), partialRows))}
         \cup EventTimes(Tail(files))

MaxOf(S) == IF S = {} THEN 0 ELSE CHOOSE t \in S : \A u \in S : u <= t

RECURSIVE RowCount(_)
RowCount(files) ==
    IF files = <<>> THEN 0
    ELSE Cardinality(Windowed(TypedRows(Head(files), partialRows))) + RowCount(Tail(files))

EventTimeStats(files) == [count |-> RowCount(files), max |-> MaxOf(EventTimes(files))]

ClosedKeysEarly(state, wm) == {k \in DOMAIN state : k.window_start <= wm}

ClosedKeys(state, wm) == {k \in DOMAIN state : Closed(k, wm)}

Evict(state, wm) == Restrict(state, DOMAIN state \ ClosedKeys(state, wm))

----------------------------------------------------------------------------
(* The micro-batch loop of the started query (writeStream ... start()). *)

InputVersionLatest(b) == Len(stateStore) - 1

(* State version a batch starts from: the version numbered by its batch id. *)
InputVersion(b) == b

(* File sink: a batch id not above the latest committed manifest is skipped. *)
AlreadyCommitted(b) == \E i \in DOMAIN sinkLog : b <= sinkLog[i].batchId

NewWatermarkFromLastBatch(stats, current) ==
    IF stats.count > 0 THEN stats.max - DelayThreshold ELSE current

(* Watermark tracker: max event time seen minus the delay, never moved back. *)
NewWatermark(stats, current) ==
    IF stats.count > 0 /\ stats.max - DelayThreshold > current
    THEN stats.max - DelayThreshold
    ELSE current

ReadyToCommitBeforeSink == pc \in {"executed", "updated"}

(* The commit log is written once the sink has taken the batch and the tracker
   was updated. *)
ReadyToCommit == pc = "updated"

EngineInit(present, files, more, builds) ==
    /\ feed = [files |-> files, left |-> more]
    /\ partialRows \in builds
    /\ source = present
    /\ offsetLog = <<>>
    /\ commitLog = <<>>
    /\ stateStore = <<EmptyState>>
    /\ sinkLog = <<>>
    /\ pc = "idle"
    /\ watermark = 0
    /\ lastExecution = NoExecution
    /\ batchOutput = {}
    /\ numRowsDroppedByWatermark = 0
    /\ exception = "none"
    /\ restarts = 0

SimIdle ==
    /\ energy = <<>>
    /\ metadata = <<>>
    /\ readings = <<>>
    /\ written = <<>>
    /\ simPc = "off"

(* A batch file appears under input_path. *)
FileArrives ==
    /\ feed.left > 0
    /\ \E file \in feed.files : source' = Append(source, file)
    /\ feed' = [feed EXCEPT !.left = feed.left - 1]
    /\ UNCHANGED <<offsetLog, commitLog, stateStore, sinkLog, partialRows, pc, watermark,
                   lastExecution, batchOutput, numRowsDroppedByWatermark, exception,
                   restarts>>
    /\ UNCHANGED simVars

(* Plan the next batch: new files, or a batch without data because the watermark
   moved past the one the last batch ran with.  The plan is logged first. *)
ConstructNextBatch ==
    /\ pc = "idle"
    /\ \/ Len(source) > CommittedEnd
       \/ lastExecution.defined /\ watermark > lastExecution.batchWatermark
    /\ offsetLog' = Append(offsetLog, [end |-> Len(source), watermark |-> watermark])
    /\ pc' = "constructed"
    /\ UNCHANGED <<feed, source, commitLog, stateStore, sinkLog, partialRows, watermark,
                   lastExecution, batchOutput, numRowsDroppedByWatermark, exception,
                   restarts>>
    /\ UNCHANGED simVars

(* Run the aggregation of the planned batch: drop late rows, merge the others,
   finalize and evict the closed windows, commit the next state version. *)
ExecutePlan ==
    /\ pc = "constructed"
    /\ ~AlreadyCommitted(CurrentBatchId)
    /\ LET b == CurrentBatchId
           wm == BatchWatermark(b)
           files == BatchFiles(b)
           merged == MergeFiles(stateStore[InputVersion(b) + 1], files, wm)
           stats == EventTimeStats(files)
       IN /\ batchOutput' = {Finalize(k, merged[k]) : k \in ClosedKeys(merged, wm)}
          /\ stateStore' = Append(SubSeq(stateStore, 1, b + 1), Evict(merged, wm))
          /\ numRowsDroppedByWatermark' = DroppedIn(files, wm)
          /\ lastExecution' = [defined |-> TRUE, batchWatermark |-> wm,
                               count |-> stats.count, max |-> stats.max]
    /\ pc' = "executed"
    /\ UNCHANGED <<feed, source, offsetLog, commitLog, sinkLog, partialRows, watermark,
                   exception, restarts>>
    /\ UNCHANGED simVars

(* The sink already holds this batch id (a batch re-run after a restart): nothing
   is executed and nothing is written. *)
SkipCommittedBatch ==
    /\ pc = "constructed"
    /\ AlreadyCommitted(CurrentBatchId)
    /\ lastExecution' = [defined |-> TRUE, batchWatermark |-> BatchWatermark(CurrentBatchId),
                         count |-> 0, max |-> 0]
    /\ batchOutput' = {}
    /\ numRowsDroppedByWatermark' = 0
    /\ pc' = "written"
    /\ UNCHANGED <<feed, source, offsetLog, commitLog, stateStore, sinkLog, partialRows,
                   watermark, exception, restarts>>
    /\ UNCHANGED simVars

(* The sink takes the batch: its manifest entry is committed. *)
SinkCommit ==
    /\ pc = "executed"
    /\ sinkLog' = Append(sinkLog, [batchId |-> CurrentBatchId, rows |-> batchOutput])
    /\ pc' = "written"
    /\ UNCHANGED <<feed, source, offsetLog, commitLog, stateStore, partialRows, watermark,
                   lastExecution, batchOutput, numRowsDroppedByWatermark, exception,
                   restarts>>
    /\ UNCHANGED simVars

(* The sink write fails for good: the query terminates with the error. *)
SinkWriteFailure ==
    /\ pc = "executed"
    /\ pc' = "down"
    /\ exception' = "sink"
    /\ batchOutput' = {}
    /\ lastExecution' = NoExecution
    /\ numRowsDroppedByWatermark' = 0
    /\ UNCHANGED <<feed, source, offsetLog, commitLog, stateStore, sinkLog, partialRows,
                   watermark, restarts>>
    /\ UNCHANGED simVars

(* The tracker takes the event-time statistics of the batch that just ran. *)
UpdateWatermark ==
    /\ pc = "written"
    /\ watermark' = NewWatermark(lastExecution, watermark)
    /\ pc' = "updated"
    /\ UNCHANGED <<feed, source, offsetLog, commitLog, stateStore, sinkLog, partialRows,
                   lastExecution, batchOutput, numRowsDroppedByWatermark, exception,
                   restarts>>
    /\ UNCHANGED simVars

(* The batch is committed, with the watermark the next batch will run with. *)
CommitBatch ==
    /\ ReadyToCommit
    /\ Len(commitLog) < Len(offsetLog)
    /\ commitLog' = Append(commitLog, [nextBatchWatermark |-> watermark])
    /\ pc' = "idle"
    /\ batchOutput' = {}
    /\ UNCHANGED <<feed, source, offsetLog, stateStore, sinkLog, partialRows, watermark,
                   lastExecution, numRowsDroppedByWatermark, exception, restarts>>
    /\ UNCHANGED simVars

(* The process dies.  Its memory is gone; `watermark` keeps the tracker's last
   value until the restart replaces it. *)
Crash ==
    /\ pc # "down"
    /\ restarts < MaxRestarts
    /\ pc' = "down"
    /\ batchOutput' = {}
    /\ lastExecution' = NoExecution
    /\ numRowsDroppedByWatermark' = 0
    /\ UNCHANGED <<feed, source, offsetLog, commitLog, stateStore, sinkLog, partialRows,
                   watermark, exception, restarts>>
    /\ UNCHANGED simVars

RestoredWatermarkFromOldest ==
    IF Len(offsetLog) = 0 THEN 0 ELSE offsetLog[1].watermark

(* Start again on the same checkpoint location: resume from the logs. *)
RestoredWatermark ==
    IF Len(offsetLog) = 0 THEN 0
    ELSE LET logged == offsetLog[Len(offsetLog)].watermark
         IN IF Len(commitLog) = Len(offsetLog)
               /\ commitLog[Len(commitLog)].nextBatchWatermark > logged
            THEN commitLog[Len(commitLog)].nextBatchWatermark
            ELSE logged

Restart ==
    /\ pc = "down"
    /\ restarts < MaxRestarts
    /\ restarts' = restarts + 1
    /\ watermark' = RestoredWatermark
    /\ pc' = IF Len(commitLog) < Len(offsetLog) THEN "constructed" ELSE "idle"
    /\ exception' = "none"
    /\ UNCHANGED <<feed, source, offsetLog, commitLog, stateStore, sinkLog, partialRows,
                   lastExecution, batchOutput, numRowsDroppedByWatermark>>
    /\ UNCHANGED simVars

Next ==
    \/ FileArrives
    \/ ConstructNextBatch
    \/ ExecutePlan
    \/ SkipCommittedBatch
    \/ SinkCommit
    \/ SinkWriteFailure
    \/ UpdateWatermark
    \/ CommitBatch
    \/ Crash
    \/ Restart

Init == EngineInit(<<>>, FilesOver(Rows), MaxFiles, {TRUE}) /\ SimIdle

Spec == Init /\ [][Next]_vars

----------------------------------------------------------------------------
(* Properties of the streaming job. *)

SinkKeysOf(i) == {KeyOf(r) : r \in sinkLog[i].rows}

SinkBefore(b) == {i \in DOMAIN sinkLog : sinkLog[i].batchId < b}

FinalizedBefore(b) == UNION {SinkKeysOf(i) : i \in SinkBefore(b)}

SourceRows == UNION {Windowed(TypedRows(source[i], partialRows)) : i \in DOMAIN source}

RECURSIVE RowsWithKeyIn(_, _)
RowsWithKeyIn(files, keys) ==
    IF files = <<>> THEN 0
    ELSE Cardinality({r \in Windowed(TypedRows(Head(files), partialRows)) :
                         Assign(r.event_time, r.meter_id) \in keys})
         + RowsWithKeyIn(Tail(files), keys)

(* C1: in a run without restart every WindowKey is written to the sink at most
   once, and every finalized window has window_end <= the watermark of the batch
   that finalized it, which the current watermark is never below. *)
FinalizedOnceWhenClosed ==
    /\ restarts = 0 =>
          \A i \in DOMAIN sinkLog, j \in DOMAIN sinkLog :
              i # j => SinkKeysOf(i) \cap SinkKeysOf(j) = {}
    /\ \A i \in DOMAIN sinkLog : \A r \in sinkLog[i].rows :
          /\ r.window_end <= BatchWatermark(sinkLog[i].batchId)
          /\ r.window_end <= watermark
    /\ \A r \in batchOutput :
          /\ r.window_end <= BatchWatermark(CurrentBatchId)
          /\ r.window_end <= watermark

(* A window was written, and a later batch of the same run has processed another
   record of that window. *)
FinalizedOnceWitness ==
    /\ restarts = 0
    /\ pc = "idle"
    /\ \E i \in DOMAIN sinkLog :
          /\ sinkLog[i].rows # {}
          /\ sinkLog[i].batchId < CurrentBatchId
          /\ RowsWithKeyIn(BatchFiles(CurrentBatchId), SinkKeysOf(i)) > 0

(* C2: across crashes and restarts a WindowKey is written to the sink at most
   twice, and two writes of it never belong to different batches: once the batch
   that evicted it is committed, no later batch writes it again. *)
AtMostOneDuplicateWrite ==
    /\ \A i \in DOMAIN sinkLog : \A k \in SinkKeysOf(i) :
          Cardinality({j \in DOMAIN sinkLog : k \in SinkKeysOf(j)}) <= 2
    /\ \A i \in DOMAIN sinkLog, j \in DOMAIN sinkLog :
          sinkLog[i].batchId # sinkLog[j].batchId
             => SinkKeysOf(i) \cap SinkKeysOf(j) = {}

(* After a crash between the sink's acknowledgement and the commit, the restarted
   query has re-run the batch whose closed window the sink already holds. *)
DuplicateBoundaryWitness ==
    /\ restarts >= 1
    /\ pc = "written"
    /\ batchOutput = {}
    /\ Len(commitLog) < Len(offsetLog)
    /\ \E i \in DOMAIN sinkLog :
          sinkLog[i].batchId = CurrentBatchId /\ sinkLog[i].rows # {}

LoggedWatermarks ==
    {offsetLog[i].watermark : i \in DOMAIN offsetLog}
       \cup {commitLog[i].nextBatchWatermark : i \in DOMAIN commitLog}

(* C3 as claimed: the watermark never decreases, a restore from the checkpoint
   included. *)
WatermarkNeverDecreases == [][watermark' >= watermark]_vars

(* C3 as amended: the watermark never decreases while the query runs, the
   watermarks persisted per batch never decrease in batch order, and a restart
   restores a watermark that is not below any persisted one. *)
WatermarkMonotoneAndRestored ==
    [][/\ (pc # "down" /\ pc' # "down") => watermark' >= watermark
       /\ (pc = "down" /\ pc' # "down") => \A w \in LoggedWatermarks : watermark' >= w
       /\ \A i \in DOMAIN offsetLog', j \in DOMAIN offsetLog' :
             i <= j => offsetLog'[i].watermark <= offsetLog'[j].watermark
       /\ \A w \in LoggedWatermarks' : pc' # "down" => w <= watermark']_vars

(* The query was restarted on a checkpoint holding a watermark above the initial
   one, after an out-of-order batch. *)
WatermarkRestoredWitness ==
    /\ restarts >= 1
    /\ pc # "down"
    /\ watermark > 0
    /\ lastExecution.defined /\ lastExecution.count > 0
    /\ lastExecution.max - DelayThreshold < watermark

(* The checkpoint as a restart resumes from it: the last committed batch, the
   watermark committed with it and the state version it produced. *)
Checkpoint ==
    [last_batch_id |-> Len(commitLog) - 1,
     watermark |-> IF Len(commitLog) = 0 THEN 0
                   ELSE commitLog[Len(commitLog)].nextBatchWatermark,
     open_windows |-> stateStore[Len(commitLog) + 1]]

(* C4: a failed sink write ends the cycle with the checkpoint of the last
   committed cycle untouched, and a cycle saves its checkpoint only after the sink
   acknowledged that cycle's output; a restart resumes with the watermark of that
   checkpoint. *)
CheckpointOnlyAfterSinkAck ==
    /\ [](\A b \in 0..(Len(commitLog) - 1) :
             \E i \in DOMAIN sinkLog : sinkLog[i].batchId = b)
    /\ [][/\ (exception = "none" /\ exception' = "sink") => Checkpoint' = Checkpoint
          /\ (pc = "down" /\ pc' # "down") => watermark' = Checkpoint.watermark
          /\ Checkpoint' # Checkpoint =>
                /\ pc = "updated"
                /\ \E i \in DOMAIN sinkLog : sinkLog[i].batchId = CurrentBatchId]_vars

(* A sink write failed in a cycle that had changed the aggregation state, after at
   least one cycle had committed. *)
SinkFailureWitness ==
    /\ exception = "sink"
    /\ pc = "down"
    /\ Len(commitLog) >= 1
    /\ Len(offsetLog) = Len(commitLog) + 1
    /\ Len(stateStore) = Len(commitLog) + 2
    /\ stateStore[Len(commitLog) + 2] # stateStore[Len(commitLog) + 1]

(* C5: a record of a WindowKey that was already finalized is counted as dropped,
   never gets an accumulator again, and the key is never written again. *)
LateRecordDropped ==
    /\ \A i \in DOMAIN sinkLog : \A k \in SinkKeysOf(i) :
          \A v \in (sinkLog[i].batchId + 1)..(Len(stateStore) - 1) :
              k \notin DOMAIN stateStore[v + 1]
    /\ \A i \in DOMAIN sinkLog, j \in DOMAIN sinkLog :
          i # j => SinkKeysOf(i) \cap SinkKeysOf(j) = {}
    /\ pc = "executed" =>
          numRowsDroppedByWatermark >=
             RowsWithKeyIn(BatchFiles(CurrentBatchId), FinalizedBefore(CurrentBatchId))

(* A batch has just processed a record of an already finalized window. *)
LateRecordWitness ==
    /\ pc = "executed"
    /\ numRowsDroppedByWatermark >= 1
    /\ RowsWithKeyIn(BatchFiles(CurrentBatchId), FinalizedBefore(CurrentBatchId)) >= 1

(* What the valid records say: sum and count of metric m over the well-formed
   rows of batches 0..b that fall into window k and were read by a batch whose
   watermark had not yet reached the end of k. *)
ValidHits(file, k, wm) ==
    {r \in file : /\ r.bad = "none"
                  /\ r.meter_id = k.meter_id
                  /\ k.window_start <= r.timestamp
                  /\ r.timestamp < k.window_end
                  /\ k.window_end > wm}

RECURSIVE ExpectedSumIn(_, _, _, _)
ExpectedSumIn(files, k, m, wm) ==
    IF files = <<>> THEN 0
    ELSE SumOf(ValidHits(Head(files), k, wm), m) + ExpectedSumIn(Tail(files), k, m, wm)

RECURSIVE ExpectedCountIn(_, _, _)
ExpectedCountIn(files, k, wm) ==
    IF files = <<>> THEN 0
    ELSE Cardinality(ValidHits(Head(files), k, wm)) + ExpectedCountIn(Tail(files), k, wm)

RECURSIVE ExpectedSum(_, _, _)
ExpectedSum(b, k, m) ==
    IF b < 0 THEN 0
    ELSE ExpectedSumIn(BatchFiles(b), k, m, BatchWatermark(b)) + ExpectedSum(b - 1, k, m)

RECURSIVE ExpectedCount(_, _)
ExpectedCount(b, k) ==
    IF b < 0 THEN 0
    ELSE ExpectedCountIn(BatchFiles(b), k, BatchWatermark(b)) + ExpectedCount(b - 1, k)

ExpectedUpTo(b, k, m) == [sum |-> ExpectedSum(b, k, m), count |-> ExpectedCount(b, k)]

PossibleKeys ==
    {[window_start |-> (r.timestamp \div WindowDuration) * WindowDuration,
      window_end |-> (r.timestamp \div WindowDuration) * WindowDuration + WindowDuration,
      meter_id |-> r.meter_id] : r \in UNION {source[i] : i \in DOMAIN source}}

AvgField == [voltage |-> "avg_voltage", current |-> "avg_current",
             active_power |-> "avg_active_power", power_factor |-> "avg_power_factor"]

(* C6: whatever the crash points and restarts, the accumulators of the newest
   state version and every emitted window carry exactly the valid records of its WindowKey that arrived
   before it closed, each counted once; an open window with such records is never
   missing from the state.  (Every state version is the newest one when it is
   written.) *)
ExactlyOnceAcrossRestart ==
    /\ Len(stateStore) >= 2 =>
          LET v == Len(stateStore) - 1
              state == stateStore[v + 1]
          IN \A k \in PossibleKeys \cup DOMAIN state :
                IF k \in DOMAIN state
                THEN /\ k.window_end > BatchWatermark(v - 1)
                     /\ \A m \in Metrics : state[k][m] = ExpectedUpTo(v - 1, k, m)
                ELSE \/ k.window_end <= BatchWatermark(v - 1)
                     \/ ExpectedCount(v - 1, k) = 0
    /\ \A i \in DOMAIN sinkLog : \A r \in sinkLog[i].rows : \A m \in Metrics :
          LET a == r[AvgField[m]]
          IN /\ ExpectedCount(sinkLog[i].batchId, KeyOf(r)) > 0
             /\ a.den > 0
             /\ a.num * ExpectedCount(sinkLog[i].batchId, KeyOf(r))
                   = ExpectedSum(sinkLog[i].batchId, KeyOf(r), m) * a.den

(* The query was restarted into a batch whose merge had already reached the state
   store before the crash, and that batch has records of a still open window. *)
ReprocessedBatchWitness ==
    /\ restarts >= 1
    /\ pc = "constructed"
    /\ Len(stateStore) = Len(offsetLog) + 1
    /\ ~AlreadyCommitted(CurrentBatchId)
    /\ \E k \in DOMAIN stateStore[Len(stateStore)] :
          /\ stateStore[Len(stateStore)][k]["active_power"].count >= 2
          /\ ExpectedCountIn(BatchFiles(CurrentBatchId), k,
                             BatchWatermark(CurrentBatchId)) >= 1

(* C7: every record is assigned to the one window with
   window_start = floor(event_time / window_duration) * window_duration and
   window_end = window_start + window_duration, which contains its event time; the
   windows of the newest state version are aligned and hold a record each, and no
   record falls into two of them. *)
AssignedToContainingWindow ==
    /\ \A r \in SourceRows :
          LET k == Assign(r.event_time, r.meter_id)
          IN /\ k.window_start = (r.event_time \div WindowDuration) * WindowDuration
             /\ k.window_end = k.window_start + WindowDuration
             /\ k.window_start <= r.event_time
             /\ r.event_time < k.window_end
             /\ k.meter_id = r.meter_id
    /\ \A k \in DOMAIN stateStore[Len(stateStore)] :
          /\ k.window_start % WindowDuration = 0
          /\ k.window_end = k.window_start + WindowDuration
          /\ \E r \in SourceRows :
                /\ r.meter_id = k.meter_id
                /\ k.window_start <= r.event_time
                /\ r.event_time < k.window_end
    /\ \A r \in SourceRows :
          Cardinality({k \in DOMAIN stateStore[Len(stateStore)] :
                          /\ k.meter_id = r.meter_id
                          /\ k.window_start <= r.event_time
                          /\ r.event_time < k.window_end}) <= 1

(* A record whose event time lies exactly on a window boundary was merged into
   the window that starts there. *)
BoundaryRecordWitness ==
    \E r \in SourceRows :
        /\ r.event_time > 0
        /\ r.event_time % WindowDuration = 0
        /\ \E k \in DOMAIN stateStore[Len(stateStore)] :
              /\ k.window_start = r.event_time
              /\ k.meter_id = r.meter_id
              /\ stateStore[Len(stateStore)][k]["active_power"].count >= 1

----------------------------------------------------------------------------
(* The example of the specification: three records of meter 1 in [00:00, 00:05)
   with active_power 100, 200 and 300, then later records one file at a time. *)
ExampleInit ==
    /\ EngineInit(<<ExampleFirst>>, {{r} : r \in ExampleLater}, MaxFiles, {TRUE})
    /\ SimIdle

ExampleSpec == ExampleInit /\ [][Next]_vars

ExampleKey == [window_start |-> 0, window_end |-> WindowDuration, meter_id |-> 1]

ExampleRows == {r \in UNION {sinkLog[i].rows : i \in DOMAIN sinkLog} : KeyOf(r) = ExampleKey}

BatchRequired ==
    \/ Len(source) > CommittedEnd
    \/ lastExecution.defined /\ watermark > lastExecution.batchWatermark

(* C8 as claimed: once a record at 00:05:01 or later has been processed after the
   three records and the query has nothing left to run, the window [00:00, 00:05)
   of the meter is in the sink with avg_active_power = 200. *)
ExampleClosedByNextRecord ==
    (/\ restarts = 0
     /\ pc = "idle"
     /\ ~BatchRequired
     /\ CommittedEnd >= 2)
    => \E r \in ExampleRows : r.avg_active_power = [num |-> 200, den |-> 1]

(* C8 as amended: under the 5 minutes of lateness the job fixes, the window is
   emitted by the first batch that runs with a watermark >= 00:05:00, which takes
   a record at 00:10:00 or later and not one at 00:05:01; it is emitted with
   avg_active_power = 200 = 600 / 3, and every emitted average is the sum of the
   merged values over the merged count. *)
ExampleClosedPastLateness ==
    /\ \A i \in DOMAIN sinkLog :
          BatchWatermark(sinkLog[i].batchId) >= WindowDuration => ExampleRows # {}
    /\ ExampleRows # {} =>
          /\ watermark >= WindowDuration
          /\ \E r \in SourceRows : r.event_time >= WindowDuration + DelayThreshold
    /\ \A r \in ExampleRows : r.avg_active_power = [num |-> 200, den |-> 1]
    /\ \A i \in DOMAIN sinkLog : \A r \in sinkLog[i].rows :
          /\ KeyOf(r) \in DOMAIN stateStore[sinkLog[i].batchId + 1]
          /\ \A m \in Metrics :
                LET acc == stateStore[sinkLog[i].batchId + 1][KeyOf(r)][m]
                IN /\ acc.count > 0
                   /\ r[AvgField[m]].num * acc.count = acc.sum * r[AvgField[m]].den
                   /\ (KeyOf(r) = ExampleKey /\ m = "active_power")
                         => acc = [sum |-> 600, count |-> 3]

(* The window of the example is in the sink, after a record at 00:05:01 that did
   not close it. *)
ExampleEmittedWitness ==
    /\ ExampleRows # {}
    /\ \E r \in SourceRows : r.event_time = WindowDuration + 1
    /\ \E i \in DOMAIN offsetLog :
          offsetLog[i].end >= 2 /\ offsetLog[i].watermark < WindowDuration

----------------------------------------------------------------------------
(* Batches with malformed rows, under both behaviours of the CSV reader. *)
ParseInit ==
    /\ EngineInit(<<>>, FilesOver(ParseRows), MaxFiles, BOOLEAN)
    /\ SimIdle

ParseSpec == ParseInit /\ [][Next]_vars

RECURSIVE TotalCount(_, _, _)
TotalCount(state, keys, m) ==
    IF keys = {} THEN 0
    ELSE LET k == CHOOSE x \in keys : TRUE
         IN state[k][m].count + TotalCount(state, keys \ {k}, m)

RECURSIVE ValidRows(_)
ValidRows(files) ==
    IF files = <<>> THEN 0
    ELSE Cardinality({r \in Head(files) : r.bad = "none"}) + ValidRows(Tail(files))

(* C9: of the n rows of a batch, m of them malformed, exactly the n - m valid
   rows are merged (stated for the first batch, where no row is late), and the
   cycle runs on. *)
OnlyValidRowsMerged ==
    Len(stateStore) >= 2 =>
        \A m \in Metrics :
            TotalCount(stateStore[2], DOMAIN stateStore[2], m) = ValidRows(BatchFiles(0))

----------------------------------------------------------------------------
(* The simulator (src/simulator/simulator.py).  Energy is counted in units of
   1e-6 kWh, the precision total_energy_kwh is rounded to. *)
Meters == 2
BatchSize == 2
MaxBatches == 2
MaxEnergy == 6

(* Energy added by one reading: active_power / 3600000, rounded to 6 places.
   active_power = voltage * current * factor is never negative: current is
   clamped at 0, voltage is drawn around 230 and factor from [0.85, 0.98]. *)
Increments == {0, 1, 2}

FromMeasurement(energy_counter, inc) ==
    IF energy_counter + inc > 0 THEN energy_counter + inc ELSE 0

NoMetadata == [exists |-> FALSE, state |-> <<>>]

LoadEnergyState(file, meters) ==
    IF file.exists /\ Len(file.state) = meters
    THEN file.state
    ELSE [i \in 1..meters |-> 0]

PersistEnergyState(state) == [exists |-> TRUE, state |-> state]

SimInit ==
    /\ EngineInit(<<>>, {}, 0, {TRUE})
    /\ energy = <<>>
    /\ metadata = NoMetadata
    /\ readings = <<>>
    /\ written = <<>>
    /\ simPc = "off"

(* main: load the persisted counters and enter the loop. *)
SimStart ==
    /\ simPc = "off"
    /\ energy' = LoadEnergyState(metadata, Meters)
    /\ readings' = <<>>
    /\ simPc' = "loop"
    /\ UNCHANGED <<metadata, written>>
    /\ UNCHANGED engineVars

(* write_batch, one pass of its loop: a reading of a random meter. *)
GenerateReading ==
    /\ simPc = "loop"
    /\ Len(readings) < BatchSize
    /\ Len(written) < MaxBatches
    /\ \E meter_index \in 1..Meters, inc \in Increments :
          LET total == FromMeasurement(energy[meter_index], inc)
          IN /\ total <= MaxEnergy
             /\ energy' = [energy EXCEPT ![meter_index] = total]
             /\ readings' = Append(readings, [meter_id |-> meter_index,
                                              total_energy_kwh |-> total])
    /\ UNCHANGED <<metadata, written, simPc>>
    /\ UNCHANGED engineVars

(* write_batch, after its loop: the readings go to a new CSV file. *)
WriteFile ==
    /\ simPc = "loop"
    /\ Len(readings) = BatchSize
    /\ written' = Append(written, readings)
    /\ readings' = <<>>
    /\ simPc' = "upload"
    /\ UNCHANGED <<energy, metadata>>
    /\ UNCHANGED engineVars

(* upload_to_hdfs returns: no hdfs_url, or both requests accepted. *)
UploadOk ==
    /\ simPc = "upload"
    /\ simPc' = "persist"
    /\ UNCHANGED <<energy, metadata, readings, written>>
    /\ UNCHANGED engineVars

(* upload_to_hdfs raises RuntimeError: main ends, nothing is persisted. *)
UploadFails ==
    /\ simPc = "upload"
    /\ simPc' = "off"
    /\ energy' = <<>>
    /\ UNCHANGED <<metadata, readings, written>>
    /\ UNCHANGED engineVars

(* persist_energy_state at the end of a pass, then the sleep. *)
Persist ==
    /\ simPc = "persist"
    /\ metadata' = PersistEnergyState(energy)
    /\ simPc' = "loop"
    /\ UNCHANGED <<energy, readings, written>>
    /\ UNCHANGED engineVars

(* KeyboardInterrupt anywhere in the loop: the handler persists and main ends. *)
KeyboardInterrupt ==
    /\ simPc \in {"loop", "upload", "persist"}
    /\ metadata' = PersistEnergyState(energy)
    /\ energy' = <<>>
    /\ readings' = <<>>
    /\ simPc' = "off"
    /\ UNCHANGED written
    /\ UNCHANGED engineVars

SimNext ==
    \/ SimStart
    \/ GenerateReading
    \/ WriteFile
    \/ UploadOk
    \/ UploadFails
    \/ Persist
    \/ KeyboardInterrupt

SimSpec == SimInit /\ [][SimNext]_vars

(* All readings written so far, as <<file, position, reading>>. *)
WrittenReadings ==
    {<<f, i>> : f \in DOMAIN written, i \in 1..BatchSize}

(* C10: for every meter, the total_energy_kwh written in a batch file is never
   below a total_energy_kwh written earlier for the same meter, within a run and
   across a stop followed by a restart on the same metadata file. *)
EnergyNeverDecreases ==
    \A a \in WrittenReadings, b \in WrittenReadings :
        LET ra == written[a[1]][a[2]]
            rb == written[b[1]][b[2]]
        IN (/\ \/ a[1] < b[1]
               \/ a[1] = b[1] /\ a[2] < b[2]
            /\ ra.meter_id = rb.meter_id)
           => ra.total_energy_kwh <= rb.total_energy_kwh

====
